---- MODULE Spec2Model ----
(***************************************************************************)
(* Merkle tree of the newton crate: the bound-tracking tree of             *)
(* src/blockchain/merkle.rs (construct, validate, validate_pruned, prune,  *)
(* contains).  Digests are strings, and hashing is modelled as the         *)
(* injective string function s |-> "h(" s ")", so that concatenating       *)
(* digests before hashing keeps the order and number of the parts.         *)
(***************************************************************************)
EXTENDS Integers, Sequences, FiniteSets, Bags, TLC

\* ------------------------------------------------------------------ bounds
MaxItem == 4        \* items are 1..MaxItem
MaxLen == 4         \* longest input vector
MaxKeep == 2        \* largest to_keep slice
MaxPrunes == 2      \* prune calls per run
MaxSteps == 2       \* longest list of proof steps
MaxProofItem == 2   \* largest item a proof is verified for

Items == 1..MaxItem
\* queries of contains: the items, one value below and one above them all
Queries == 0..(MaxItem + 1)

RECURSIVE SeqsUpTo(_)
SeqsUpTo(n) ==
    IF n = 0 THEN {<<>>}
    ELSE SeqsUpTo(n - 1) \cup {s \in [1..n -> Items] : TRUE}

Inputs == SeqsUpTo(MaxLen)
\* to_keep ranges over the items: an input that leaves out 1, MaxItem or a
\* value in between has to_keep elements below its minimum, above its
\* maximum and between two of its items
KeepSets == {k \in SUBSET Items : Cardinality(k) <= MaxKeep}

VARIABLES
    debug,       \* cfg(debug_assertions): debug_assert! is compiled in
    data,        \* the vector handed to construct (moved into it)
    tree,        \* the MerkleTree returned by construct, NoTree before
    cres,        \* outcome of construct: "none", "Ok", "Err", "Panic"
    orig,        \* history: the tree as construct returned it
    itemBag,     \* history: the multiset of items given to construct
    lastKeep,    \* history: to_keep of the latest prune call
    lastRet,     \* history: return value of the latest prune call
    pruneCount,  \* history: number of prune calls so far
    tamper,      \* history: the field overwritten behind the API, if any
    proof,       \* a MerkleProof, NoProof while none is at hand
    pitem,       \* the item handed to verify
    vdone,       \* history: verify was called on the proof as it stands
    vres,        \* history: return value of that verify call
    forged,      \* history: a step digest of the proof was replaced
    form,        \* history: arguments and result of check_proof_form
    labels       \* history: how the steps of a generated proof are labelled

treeVars == <<debug, data, tree, cres, orig, itemBag, lastKeep, lastRet,
              pruneCount, tamper>>
proofVars == <<proof, pitem, vdone, vres, forged, form, labels>>
vars == <<treeVars, proofVars>>

\* ----------------------------------------------------------------- hashing
\* impl Hashable for String: sha256 of the string, injective in the model
get_hash(s) == "h(" \o s \o ")"

\* T::get_hash for an item (items are the decimal strings of tests)
item_hash(i) == get_hash(ToString(i))

\* ------------------------------------------------------------ MerkleBranch
Branch(n) == [kind |-> "Branch", node |-> n]
Leaf(i, h) == [kind |-> "Leaf", item |-> i, hash |-> h]
Partial(h) == [kind |-> "Partial", hash |-> h]
Empty == [kind |-> "Empty"]

MerkleTree(l, r, lb, rb, root, ht) ==
    [left |-> l, right |-> r, l_bound |-> lb, r_bound |-> rb,
     mrkl_root |-> root, height |-> ht]

\* ------------------------------------------------------------------ MrklVR
Valid == [kind |-> "Valid", msg |-> ""]
InvalidHash(m) == [kind |-> "InvalidHash", msg |-> m]
InvalidTree(m) == [kind |-> "InvalidTree", msg |-> m]

\* Option<_>
None == [some |-> FALSE]
Some(v) == [some |-> TRUE, val |-> v]

\* --------------------------------------------------------------- construct
\* Vec::sort on the items (insertion into the sorted tail)
RECURSIVE InsertSorted(_, _)
InsertSorted(x, s) ==
    IF s = <<>> THEN <<x>>
    ELSE IF x <= Head(s) THEN <<x>> \o s
    ELSE <<Head(s)>> \o InsertSorted(x, Tail(s))

\* construct without data.sort(): the vector is built in the order given
sort_keeps_order(s) == s

RECURSIVE sort(_)
sort(s) == IF s = <<>> THEN <<>> ELSE InsertSorted(Head(s), sort(Tail(s)))

\* construct_leaf: removes the first item, appends its hash to `hash`
construct_leaf(vec, hash) ==
    LET first == Head(vec)
        first_hash == item_hash(first)
    IN [branch |-> Leaf(first, first_hash), data |-> Tail(vec),
        hash |-> hash \o first_hash]

\* construct_branch that puts the mrkl_root in front of `hash`
construct_branch_prepend(vec, hash) ==
    LET first == Head(vec)
    IN [branch |-> Branch(first), data |-> Tail(vec),
        hash |-> first.mrkl_root \o hash]

\* construct_branch: removes the first tree, appends its mrkl_root to `hash`
construct_branch(vec, hash) ==
    LET first == Head(vec)
    IN [branch |-> Branch(first), data |-> Tail(vec),
        hash |-> hash \o first.mrkl_root]

\* construct_fringe_node whose digest leaves out the right leaf
construct_fringe_node_left_only(vec) ==
    LET l == construct_leaf(vec, "")
        r == IF Len(l.data) > 0 THEN construct_leaf(l.data, l.hash)
             ELSE [branch |-> Empty, data |-> l.data, hash |-> l.hash]
        l_bound == l.branch.item
        r_bound == IF r.branch.kind = "Leaf" THEN r.branch.item ELSE l_bound
    IN [node |-> MerkleTree(l.branch, r.branch, l_bound, r_bound,
                            get_hash(l.hash), 0),
        data |-> r.data]

\* construct_fringe_node: a height 0 node over the first one or two items
construct_fringe_node(vec) ==
    LET l == construct_leaf(vec, "")
        r == IF Len(l.data) > 0 THEN construct_leaf(l.data, l.hash)
             ELSE [branch |-> Empty, data |-> l.data, hash |-> l.hash]
        l_bound == l.branch.item
        r_bound == IF r.branch.kind = "Leaf" THEN r.branch.item ELSE l_bound
    IN [node |-> MerkleTree(l.branch, r.branch, l_bound, r_bound,
                            get_hash(r.hash), 0),
        data |-> r.data]

\* construct_internal_node that counts the leaves as a level of their own
construct_internal_node_leaf_level(vec, height) ==
    LET l == construct_branch(vec, "")
        r == IF Len(l.data) > 0 THEN construct_branch(l.data, l.hash)
             ELSE [branch |-> Empty, data |-> l.data, hash |-> l.hash]
        l_bound == l.branch.node.r_bound
        r_bound == IF r.branch.kind = "Branch" THEN r.branch.node.r_bound
                   ELSE l_bound
    IN [node |-> MerkleTree(l.branch, r.branch, l_bound, r_bound,
                            get_hash(r.hash), height + 1),
        data |-> r.data]

\* construct_internal_node taking l_bound from the left child's l_bound
construct_internal_node_left_l_bound(vec, height) ==
    LET l == construct_branch(vec, "")
        r == IF Len(l.data) > 0 THEN construct_branch(l.data, l.hash)
             ELSE [branch |-> Empty, data |-> l.data, hash |-> l.hash]
        l_bound == l.branch.node.l_bound
        r_bound == IF r.branch.kind = "Branch" THEN r.branch.node.r_bound
                   ELSE l_bound
    IN [node |-> MerkleTree(l.branch, r.branch, l_bound, r_bound,
                            get_hash(r.hash), height),
        data |-> r.data]

\* construct_internal_node: a node over the first one or two trees
construct_internal_node(vec, height) ==
    LET l == construct_branch(vec, "")
        r == IF Len(l.data) > 0 THEN construct_branch(l.data, l.hash)
             ELSE [branch |-> Empty, data |-> l.data, hash |-> l.hash]
        l_bound == l.branch.node.r_bound
        r_bound == IF r.branch.kind = "Branch" THEN r.branch.node.r_bound
                   ELSE l_bound
    IN [node |-> MerkleTree(l.branch, r.branch, l_bound, r_bound,
                            get_hash(r.hash), height),
        data |-> r.data]

\* while data.len() > 0 { mrkl_trees.push(construct_fringe_node(data)) }
RECURSIVE FringeRow(_)
FringeRow(vec) ==
    IF Len(vec) > 0
    THEN LET f == construct_fringe_node(vec)
         IN <<f.node>> \o FringeRow(f.data)
    ELSE <<>>

\* while mrkl_trees.len() > 0 { new.push(construct_internal_node(..)) }
RECURSIVE InternalRow(_, _)
InternalRow(trees, height) ==
    IF Len(trees) > 0
    THEN LET n == construct_internal_node(trees, height)
         IN <<n.node>> \o InternalRow(n.data, height)
    ELSE <<>>

\* while mrkl_trees.len() > 1 { ...; height += 1 }  Ok(mrkl_trees.remove(0))
RECURSIVE BuildLevels(_, _)
BuildLevels(trees, height) ==
    IF Len(trees) > 1
    THEN BuildLevels(InternalRow(trees, height), height + 1)
    ELSE trees[1]

NoTree == [kind |-> "NoTree"]

\* construct with assert! in place of debug_assert!
construct_assert(input) ==
    LET sorted == sort(input)
    IN IF Len(sorted) < 1
       THEN [res |-> "Panic", tree |-> NoTree]
       ELSE [res |-> "Ok", tree |-> BuildLevels(FringeRow(sorted), 1)]

\* MerkleTree::construct; debug_assert!(false) panics when debug is set
construct(input) ==
    LET sorted == sort(input)
    IN IF Len(sorted) < 1
       THEN IF debug THEN [res |-> "Panic", tree |-> NoTree]
            ELSE [res |-> "Err", tree |-> NoTree]
       ELSE [res |-> "Ok", tree |-> BuildLevels(FringeRow(sorted), 1)]

\* ---------------------------------------------------------------- validate
\* validate_internal_node: digest and height of a node over one or two trees
validate_internal_node(self, left_node, right_node) ==
    LET hash == get_hash(left_node.mrkl_root \o
                         (IF right_node.some THEN right_node.val.mrkl_root
                          ELSE ""))
        right_has_correct_height ==
            IF right_node.some THEN self.height = right_node.val.height + 1
            ELSE TRUE
    IN IF /\ hash = self.mrkl_root
          /\ self.height = left_node.height + 1
          /\ right_has_correct_height
       THEN Valid
       ELSE IF \/ self.height # left_node.height + 1
               \/ right_has_correct_height
       THEN InvalidTree("An internal node has height which differs from 1 + (child height)")
       ELSE InvalidHash("An internal node has an unexpected mrkl_root")

\* validate_fringe_node: digest, leaf hashes and height of a height 0 node
validate_fringe_node(self, left_it, left_hash, right_it, right_hash) ==
    IF right_it.some # right_hash.some
    THEN IF debug THEN [kind |-> "Panic", msg |-> ""]
         ELSE InvalidTree("Upon validating a fringe node, expected both right_it and right_hash to be None")
    ELSE
    LET hash == get_hash(left_hash \o
                         (IF right_hash.some THEN right_hash.val ELSE ""))
        right_hash_is_valid ==
            IF right_it.some THEN item_hash(right_it.val) = right_hash.val
            ELSE TRUE
    IN IF /\ item_hash(left_it) = left_hash
          /\ right_hash_is_valid
          /\ self.mrkl_root = hash
          /\ self.height = 0
       THEN Valid
       ELSE IF self.mrkl_root # hash
       THEN InvalidHash("A fringe node has an unexpected mrkl_root")
       ELSE IF self.height # 0
       THEN InvalidTree("A fringe node has nonzero height")
       ELSE InvalidHash("A leaf's hash failed a hash check")

\* the match without the InvalidHash arm: the left result is returned
TwoBranchResult_left_only(self, l, r) ==
    IF l.kind = "Valid" /\ r.kind = "Valid"
    THEN validate_internal_node(self, self.left.node, Some(self.right.node))
    ELSE l

\* the match on (left_br._validate(pruned), right_br._validate(pruned))
TwoBranchResult(self, l, r) ==
    IF l.kind = "Valid" /\ r.kind = "Valid"
    THEN validate_internal_node(self, self.left.node, Some(self.right.node))
    ELSE IF l.kind = "InvalidHash" THEN l
    ELSE IF r.kind = "InvalidHash" THEN r
    ELSE l

RECURSIVE _validate(_, _)

\* validate_pruned_node: a node with one Partial child holding pruned_hash
validate_pruned_node(self, pruned_hash, other) ==
    CASE other.kind = "Branch" ->
            LET res == _validate(other.node, FALSE)
            IN IF res.kind = "Valid"
               THEN IF self.mrkl_root =
                          get_hash(pruned_hash \o other.node.mrkl_root)
                    THEN Valid
                    ELSE InvalidHash("An internal node had an unexpected mrkl_root")
               ELSE res
      [] other.kind = "Leaf" ->
            LET hash == get_hash(other.hash \o pruned_hash)
            IN IF other.hash = item_hash(other.item) /\ hash = self.mrkl_root
               THEN Valid
               ELSE IF other.hash # item_hash(other.item)
               THEN InvalidHash("A leaf's hash failed a hash check")
               ELSE InvalidHash("A fringe node has an unexpected mrkl_root")
      [] other.kind = "Partial" ->
            InvalidTree("Invalid pruned tree. Only one child may be pruned.")
      [] other.kind = "Empty" ->
            InvalidTree("Invalid pruned tree. Every node must have at least one valid child.")

\* _validate: the match on (&self.left, &self.right), arms in source order
_validate(self, pruned) ==
    LET l == self.left
        r == self.right
    IN CASE l.kind = "Branch" /\ r.kind = "Branch" ->
              TwoBranchResult(self, _validate(l.node, pruned),
                              _validate(r.node, pruned))
         [] l.kind = "Branch" /\ r.kind = "Empty" ->
              LET res == _validate(l.node, pruned)
              IN IF res.kind = "Valid"
                 THEN validate_internal_node(self, l.node, None)
                 ELSE res
         [] l.kind = "Leaf" /\ r.kind = "Leaf" ->
              validate_fringe_node(self, l.item, l.hash,
                                   Some(r.item), Some(r.hash))
         [] l.kind = "Leaf" /\ r.kind = "Empty" ->
              validate_fringe_node(self, l.item, l.hash, None, None)
         [] l.kind = "Partial" /\ r.kind = "Partial" ->
              InvalidTree("Invalid pruned tree. Only one child may be pruned.")
         [] l.kind = "Partial" /\ r.kind # "Partial" ->
              IF ~pruned THEN InvalidTree("Unexpected pruned tree.")
              ELSE validate_pruned_node(self, l.hash, r)
         [] l.kind # "Partial" /\ r.kind = "Partial" ->
              IF ~pruned THEN InvalidTree("Unexpected pruned tree.")
              ELSE validate_pruned_node(self, r.hash, l)
         [] OTHER -> InvalidTree("Malformed tree")

validate(self) == _validate(self, FALSE)

validate_pruned(self) == _validate(self, TRUE)

\* ------------------------------------------- validate of the digest-only tree
\* src/src/merkle.rs keeps left, right, mrkl_root and height, and a Leaf holds
\* the digest alone; its construct builds the same nodes from the same vector,
\* so its validator is applied to the fields it has in common with the tree
\* above (it has no Partial branch)

\* merkle::MerkleTree::validate_internal_node
merkle_validate_internal_node(self, left_node, right_node) ==
    LET hash == get_hash(left_node.mrkl_root \o
                         (IF right_node.some THEN right_node.val.mrkl_root
                          ELSE ""))
        right_has_correct_height ==
            IF right_node.some THEN self.height = right_node.val.height + 1
            ELSE TRUE
    IN IF /\ hash = self.mrkl_root
          /\ self.height = left_node.height + 1
          /\ right_has_correct_height
       THEN Valid
       ELSE IF \/ self.height # left_node.height + 1
               \/ ~right_has_correct_height
       THEN InvalidTree("An internal node has height which differs from 1 + (child height)")
       ELSE InvalidHash("An internal node has an unexpected mrkl_root")

\* merkle::MerkleTree::validate_fringe_node
merkle_validate_fringe_node(self, left_hash, right_hash) ==
    LET hash == get_hash(left_hash \o
                         (IF right_hash.some THEN right_hash.val ELSE ""))
    IN IF self.mrkl_root = hash /\ self.height = 0
       THEN Valid
       ELSE IF self.mrkl_root # hash
       THEN InvalidHash("A fringe node has an unexpected mrkl_root")
       ELSE InvalidTree("A fringe node has nonzero height")

\* merkle::MerkleTree::validate: the match on (&self.left, &self.right)
RECURSIVE merkle_validate(_)
merkle_validate(self) ==
    LET l == self.left
        r == self.right
    IN CASE l.kind = "Branch" /\ r.kind = "Branch" ->
              LET lres == merkle_validate(l.node)
                  rres == merkle_validate(r.node)
              IN IF lres.kind = "Valid" /\ rres.kind = "Valid"
                 THEN merkle_validate_internal_node(self, l.node, Some(r.node))
                 ELSE IF lres.kind = "InvalidHash" THEN lres
                 ELSE IF rres.kind = "InvalidHash" THEN rres
                 ELSE lres
         [] l.kind = "Branch" /\ r.kind = "Empty" ->
              LET res == merkle_validate(l.node)
              IN IF res.kind = "Valid"
                 THEN merkle_validate_internal_node(self, l.node, None)
                 ELSE res
         [] l.kind = "Leaf" /\ r.kind = "Leaf" ->
              merkle_validate_fringe_node(self, l.hash, Some(r.hash))
         [] l.kind = "Leaf" /\ r.kind = "Empty" ->
              merkle_validate_fringe_node(self, l.hash, None)
         [] OTHER -> InvalidTree("Malformed tree")

\* ---------------------------------------------------------------- contains
RECURSIVE contains(_, _)

\* contains that descends left only for items strictly below l_bound
contains_strict_bound(self, item) ==
    LET search_branch == IF item < self.l_bound THEN self.left
                         ELSE self.right
    IN CASE search_branch.kind = "Branch" -> contains(search_branch.node, item)
         [] search_branch.kind = "Leaf" ->
              IF search_branch.item = item THEN "Ok(true)" ELSE "Ok(false)"
         [] search_branch.kind = "Partial" -> "Err"
         [] OTHER -> "Ok(false)"

\* contains that reports a pruned branch as an absent item
contains_partial_false(self, item) ==
    LET search_branch == IF item <= self.l_bound THEN self.left
                         ELSE self.right
    IN CASE search_branch.kind = "Branch" -> contains(search_branch.node, item)
         [] search_branch.kind = "Leaf" ->
              IF search_branch.item = item THEN "Ok(true)" ELSE "Ok(false)"
         [] OTHER -> "Ok(false)"

\* contains: binary search by l_bound; "Err" is the Err(String) result
contains(self, item) ==
    LET search_branch == IF item <= self.l_bound THEN self.left
                         ELSE self.right
    IN CASE search_branch.kind = "Branch" -> contains(search_branch.node, item)
         [] search_branch.kind = "Leaf" ->
              IF search_branch.item = item THEN "Ok(true)" ELSE "Ok(false)"
         [] search_branch.kind = "Partial" -> "Err"
         [] OTHER -> "Ok(false)"

\* ------------------------------------------------------------------- prune
RECURSIVE find_min(_)
\* find_min: the leftmost leaf value, an error past a Partial or Empty
find_min(self) ==
    CASE self.left.kind = "Branch" -> find_min(self.left.node)
      [] self.left.kind = "Leaf" -> [ok |-> TRUE, val |-> self.left.item]
      [] OTHER -> [ok |-> FALSE]

\* find_min_right answering with the largest value of the right child
find_min_right_r_bound(self) ==
    CASE self.right.kind \in {"Branch", "Leaf"} ->
            [ok |-> TRUE, val |-> self.r_bound]
      [] OTHER -> [ok |-> FALSE]

\* find_min_right: the leftmost leaf value of the right child
find_min_right(self) ==
    CASE self.right.kind = "Branch" -> find_min(self.right.node)
      [] self.right.kind = "Leaf" -> [ok |-> TRUE, val |-> self.right.item]
      [] OTHER -> [ok |-> FALSE]

\* compute_branch that keeps the digest of the left child of a pruned node
compute_branch_child_digest(br) ==
    CASE br.kind = "Branch" ->
            Partial(IF br.node.left.kind = "Branch"
                    THEN br.node.left.node.mrkl_root ELSE br.node.left.hash)
      [] br.kind = "Leaf" -> Partial(br.hash)
      [] br.kind = "Partial" -> Partial(br.hash)

\* the closure compute_branch of prune_recurse, on a non-Empty branch
compute_branch(br) ==
    CASE br.kind = "Branch" -> Partial(br.node.mrkl_root)
      [] br.kind = "Leaf" -> Partial(br.hash)
      [] br.kind = "Partial" -> Partial(br.hash)

RECURSIVE prune(_, _)

\* prune_recurse: collapse the branch, or prune inside a kept Branch
prune_recurse(to_keep, branch, should_prune) ==
    IF should_prune
    THEN IF branch.kind = "Empty" THEN [ret |-> FALSE, branch |-> branch]
         ELSE [ret |-> TRUE, branch |-> compute_branch(branch)]
    ELSE IF branch.kind = "Branch"
         THEN LET p == prune(branch.node, to_keep)
              IN [ret |-> p.ret, branch |-> Branch(p.tree)]
         ELSE [ret |-> TRUE, branch |-> branch]

\* prune without the to_keep.len() <= 0 return
prune_no_empty_check(self, to_keep) ==
    IF validate(self).kind # "Valid" THEN [ret |-> FALSE, tree |-> self]
    ELSE
    LET prune_left == \A element \in to_keep : ~(element <= self.l_bound)
        l == prune_recurse(to_keep, self.left, prune_left)
        result == l.ret
        after_left == [self EXCEPT !.left = l.branch]
        min_right == find_min_right(self)
    IN IF ~min_right.ok THEN [ret |-> result, tree |-> after_left]
       ELSE
       LET prune_right == \A element \in to_keep : ~(element >= min_right.val)
       IN IF ~result THEN [ret |-> FALSE, tree |-> after_left]
          ELSE LET r == prune_recurse(to_keep, self.right, prune_right)
               IN [ret |-> r.ret,
                   tree |-> [after_left EXCEPT !.right = r.branch]]

\* prune that refuses a to_keep with an element the tree does not contain
prune_members_only(self, to_keep) ==
    IF validate(self).kind # "Valid" THEN [ret |-> FALSE, tree |-> self]
    ELSE IF Cardinality(to_keep) <= 0 THEN [ret |-> FALSE, tree |-> self]
    ELSE IF \E element \in to_keep : contains(self, element) # "Ok(true)"
    THEN [ret |-> FALSE, tree |-> self]
    ELSE
    LET prune_left == \A element \in to_keep : ~(element <= self.l_bound)
        l == prune_recurse(to_keep, self.left, prune_left)
        result == l.ret
        after_left == [self EXCEPT !.left = l.branch]
        min_right == find_min_right(self)
    IN IF ~min_right.ok THEN [ret |-> result, tree |-> after_left]
       ELSE
       LET prune_right == \A element \in to_keep : ~(element >= min_right.val)
       IN IF ~result THEN [ret |-> FALSE, tree |-> after_left]
          ELSE LET r == prune_recurse(to_keep, self.right, prune_right)
               IN [ret |-> r.ret,
                   tree |-> [after_left EXCEPT !.right = r.branch]]

\* prune: returns the bool and the tree as the call leaves it
prune(self, to_keep) ==
    IF validate(self).kind # "Valid" THEN [ret |-> FALSE, tree |-> self]
    ELSE IF Cardinality(to_keep) <= 0 THEN [ret |-> FALSE, tree |-> self]
    ELSE
    LET prune_left == \A element \in to_keep : ~(element <= self.l_bound)
        l == prune_recurse(to_keep, self.left, prune_left)
        result == l.ret
        after_left == [self EXCEPT !.left = l.branch]
        min_right == find_min_right(self)
    IN IF ~min_right.ok THEN [ret |-> result, tree |-> after_left]
       ELSE
       LET prune_right == \A element \in to_keep : ~(element >= min_right.val)
       IN IF ~result THEN [ret |-> FALSE, tree |-> after_left]
          ELSE LET r == prune_recurse(to_keep, self.right, prune_right)
               IN [ret |-> r.ret,
                   tree |-> [after_left EXCEPT !.right = r.branch]]

\* ------------------------------------------------- addressing tree fields
\* paths ("L"/"R" from the root) of the nodes reachable through Branch children
RECURSIVE NodePaths(_)
NodePaths(t) ==
    {<<>>}
    \cup (IF t.left.kind = "Branch"
          THEN {<<"L">> \o p : p \in NodePaths(t.left.node)} ELSE {})
    \cup (IF t.right.kind = "Branch"
          THEN {<<"R">> \o p : p \in NodePaths(t.right.node)} ELSE {})

RECURSIVE NodeAt(_, _)
NodeAt(t, path) ==
    IF path = <<>> THEN t
    ELSE IF Head(path) = "L" THEN NodeAt(t.left.node, Tail(path))
    ELSE NodeAt(t.right.node, Tail(path))

RECURSIVE ReplaceAt(_, _, _)
ReplaceAt(t, path, n) ==
    IF path = <<>> THEN n
    ELSE IF Head(path) = "L"
    THEN [t EXCEPT !.left = Branch(ReplaceAt(t.left.node, Tail(path), n))]
    ELSE [t EXCEPT !.right = Branch(ReplaceAt(t.right.node, Tail(path), n))]

Side(n, side) == IF side = "L" THEN n.left ELSE n.right

SetSide(n, side, br) ==
    IF side = "L" THEN [n EXCEPT !.left = br] ELSE [n EXCEPT !.right = br]

\* multiset of the items of a vector
BagOfSeq(s) ==
    [i \in {s[j] : j \in 1..Len(s)} |->
        Cardinality({j \in 1..Len(s) : s[j] = i})]

\* ----------------------------------------------------------------- actions
\* digests written by a digest overwrite
TamperDigests == {item_hash(i) : i \in Queries}

\* ------------------------------------------------------------ MerkleProof
\* hash::concat_hashes: the digest of first followed by second
concat_hashes(first, second) == get_hash(first \o second)

\* enum MerkleProofStep
Right(step_hash) == [dir |-> "Right", hash |-> step_hash]
Left(step_hash) == [dir |-> "Left", hash |-> step_hash]
End == [dir |-> "End"]

\* struct MerkleProof
MerkleProof(steps, root_hash, start_hash) ==
    [steps |-> steps, root_hash |-> root_hash, start_hash |-> start_hash]

NoProof == [steps |-> <<>>, root_hash |-> "", start_hash |-> ""]

\* (variants of verify, to test the properties)
RECURSIVE verify_steps_sibling_side(_, _)
verify_steps_sibling_side(steps, hash) ==
    IF steps = <<>> THEN [returned |-> FALSE, hash |-> hash]
    ELSE LET step == Head(steps)
         IN CASE step.dir = "Right" ->
                   verify_steps_sibling_side(Tail(steps),
                                             concat_hashes(hash, step.hash))
              [] step.dir = "Left" ->
                   verify_steps_sibling_side(Tail(steps),
                                             concat_hashes(step.hash, hash))
              [] OTHER -> [returned |-> TRUE, hash |-> hash]

verify_sibling_side(self, item) ==
    LET run == verify_steps_sibling_side(self.steps, item_hash(item))
    IN ~run.returned /\ run.hash = self.root_hash

RECURSIVE verify_steps_skip_end(_, _)
verify_steps_skip_end(steps, hash) ==
    IF steps = <<>> THEN hash
    ELSE LET step == Head(steps)
         IN CASE step.dir = "Right" ->
                   verify_steps_skip_end(Tail(steps),
                                         concat_hashes(step.hash, hash))
              [] step.dir = "Left" ->
                   verify_steps_skip_end(Tail(steps),
                                         concat_hashes(hash, step.hash))
              [] OTHER -> verify_steps_skip_end(Tail(steps), hash)

verify_skip_end(self, item) ==
    verify_steps_skip_end(self.steps, item_hash(item)) = self.root_hash

\* the for loop of verify over the steps not yet read, hash being the running
\* digest: it ends with the digest after the last step, or returns false from
\* verify at the first step that is neither Right nor Left
RECURSIVE verify_steps(_, _)
verify_steps(steps, hash) ==
    IF steps = <<>> THEN [returned |-> FALSE, hash |-> hash]
    ELSE LET step == Head(steps)
         IN CASE step.dir = "Right" ->
                   verify_steps(Tail(steps), concat_hashes(step.hash, hash))
              [] step.dir = "Left" ->
                   verify_steps(Tail(steps), concat_hashes(hash, step.hash))
              [] OTHER -> [returned |-> TRUE, hash |-> hash]

\* MerkleProof::verify
verify(self, item) ==
    LET run == verify_steps(self.steps, item_hash(item))
    IN ~run.returned /\ run.hash = self.root_hash

\* (a variant of check_proof_form, to test the properties)
check_proof_form_no_offset(self, mrkl_root, mrkl_height) ==
    /\ mrkl_root = self.root_hash
    /\ mrkl_height = Len(self.steps)

\* MerkleProof::check_proof_form; mrkl_height is a usize
check_proof_form(self, mrkl_root, mrkl_height) ==
    /\ mrkl_root = self.root_hash
    /\ mrkl_height = Len(self.steps) + 1

\* the inputs of the proof operations
ProofItems == 1..MaxProofItem
StepDigests == {item_hash(i) : i \in ProofItems}
ProofSteps ==
    {Right(d) : d \in StepDigests} \cup {Left(d) : d \in StepDigests}
        \cup {End}
StepSeqs == UNION {[1..n -> ProofSteps] : n \in 0..MaxSteps}
\* a digest that no list of steps leads to
WrongRoot == item_hash(0)
\* the root digests a prover can have reached from hash over the digests of
\* steps, whichever side it put each of them on
RECURSIVE ProofRoots(_, _)
ProofRoots(steps, hash) ==
    IF steps = <<>> THEN {hash}
    ELSE LET step == Head(steps)
         IN IF step.dir = "End" THEN ProofRoots(Tail(steps), hash)
            ELSE ProofRoots(Tail(steps), concat_hashes(step.hash, hash))
                   \cup ProofRoots(Tail(steps), concat_hashes(hash, step.hash))
Proofs(item) ==
    UNION {{MerkleProof(s, r, item_hash(item)) :
              r \in ProofRoots(s, item_hash(item)) \cup {WrongRoot}} :
           s \in StepSeqs}
FormHeights == 0..(MaxSteps + 2)
NoForm == [called |-> FALSE, mrkl_root |-> "", mrkl_height |-> 0, ret |-> FALSE]

Init ==
    /\ debug \in BOOLEAN
    /\ data \in Inputs
    /\ tree = NoTree
    /\ cres = "none"
    /\ orig = NoTree
    /\ itemBag = EmptyBag
    /\ lastKeep = {}
    /\ lastRet = FALSE
    /\ pruneCount = 0
    /\ tamper = "none"
    /\ proof = NoProof
    /\ pitem = 0
    /\ vdone = FALSE
    /\ vres = FALSE
    /\ forged = FALSE
    /\ form = NoForm
    /\ labels = "none"

\* let t = MerkleTree::construct(data)
Construct ==
    /\ cres = "none"
    /\ LET c == construct(data)
       IN /\ cres' = c.res
          /\ tree' = c.tree
          /\ orig' = c.tree
    /\ itemBag' = BagOfSeq(data)
    /\ data' = <<>>
    /\ UNCHANGED <<debug, lastKeep, lastRet, pruneCount, tamper>>
    /\ UNCHANGED proofVars

\* t.prune(&to_keep)
Prune ==
    /\ cres = "Ok" /\ tamper = "none"
    /\ pruneCount < MaxPrunes
    /\ \E to_keep \in KeepSets :
          LET p == prune(tree, to_keep)
          IN /\ tree' = p.tree
             /\ lastRet' = p.ret
             /\ lastKeep' = to_keep
    /\ pruneCount' = pruneCount + 1
    /\ UNCHANGED <<debug, data, cres, orig, itemBag, tamper>>
    /\ UNCHANGED proofVars

\* the stored digest of one leaf is overwritten by a different digest
TamperLeaf ==
    /\ cres = "Ok" /\ tamper = "none" /\ pruneCount = 0
    /\ \E path \in NodePaths(tree), side \in {"L", "R"}, d \in TamperDigests :
          LET n == NodeAt(tree, path)
              br == Side(n, side)
          IN /\ br.kind = "Leaf"
             /\ br.hash # d
             /\ tree' = ReplaceAt(tree, path,
                                  SetSide(n, side, Leaf(br.item, d)))
    /\ tamper' = "leaf"
    /\ UNCHANGED <<debug, data, cres, orig, itemBag, lastKeep, lastRet,
                   pruneCount>>
    /\ UNCHANGED proofVars

\* the mrkl_root of one node is overwritten by a different digest
TamperRoot ==
    /\ cres = "Ok" /\ tamper = "none" /\ pruneCount = 0
    /\ \E path \in NodePaths(tree), d \in TamperDigests :
          LET n == NodeAt(tree, path)
          IN /\ n.mrkl_root # d
             /\ tree' = ReplaceAt(tree, path, [n EXCEPT !.mrkl_root = d])
    /\ tamper' = "root"
    /\ UNCHANGED <<debug, data, cres, orig, itemBag, lastKeep, lastRet,
                   pruneCount>>
    /\ UNCHANGED proofVars

\* the height of one node is overwritten by a different height
TamperHeight ==
    /\ cres = "Ok" /\ tamper = "none" /\ pruneCount = 0
    /\ \E path \in NodePaths(tree), h \in 0..(tree.height + 1) :
          LET n == NodeAt(tree, path)
          IN /\ n.height # h
             /\ tree' = ReplaceAt(tree, path, [n EXCEPT !.height = h])
    /\ tamper' = "height"
    /\ UNCHANGED <<debug, data, cres, orig, itemBag, lastKeep, lastRet,
                   pruneCount>>
    /\ UNCHANGED proofVars

Next == Construct \/ Prune \/ TamperLeaf \/ TamperRoot \/ TamperHeight

Spec == Init /\ [][Next]_vars

\* ------------------------------------------------- the proof operations
\* a MerkleProof and an item, before any call
InitProof ==
    /\ debug = FALSE
    /\ data = <<>>
    /\ tree = NoTree
    /\ cres = "none"
    /\ orig = NoTree
    /\ itemBag = EmptyBag
    /\ lastKeep = {}
    /\ lastRet = FALSE
    /\ pruneCount = 0
    /\ tamper = "none"
    /\ pitem \in ProofItems
    /\ proof \in Proofs(pitem)
    /\ vdone = FALSE
    /\ vres = FALSE
    /\ forged = FALSE
    /\ form = NoForm
    /\ labels = "none"

\* proof.verify(&item)
Verify ==
    /\ proof # NoProof
    /\ ~vdone /\ ~form.called
    /\ vres' = verify(proof, pitem)
    /\ vdone' = TRUE
    /\ UNCHANGED <<proof, pitem, forged, form, labels>>
    /\ UNCHANGED treeVars

\* proof.check_proof_form(mrkl_root, mrkl_height)
CheckProofForm ==
    /\ proof # NoProof
    /\ ~vdone /\ ~form.called
    /\ \E mrkl_root \in {proof.root_hash, WrongRoot}, mrkl_height \in FormHeights :
          form' = [called |-> TRUE,
                   mrkl_root |-> mrkl_root,
                   mrkl_height |-> mrkl_height,
                   ret |-> check_proof_form(proof, mrkl_root, mrkl_height)]
    /\ UNCHANGED <<proof, pitem, vdone, vres, forged, labels>>
    /\ UNCHANGED treeVars

\* the digest of one Right or Left step of a proof that verify accepted is
\* replaced by a different digest
TamperStep ==
    /\ vdone /\ vres /\ ~forged
    /\ \E i \in 1..Len(proof.steps), d \in StepDigests \cup {WrongRoot} :
          /\ proof.steps[i].dir # "End"
          /\ proof.steps[i].hash # d
          /\ proof' = [proof EXCEPT !.steps[i].hash = d]
    /\ forged' = TRUE
    /\ vdone' = FALSE
    /\ UNCHANGED <<pitem, vres, form, labels>>
    /\ UNCHANGED treeVars

NextProof == Verify \/ CheckProofForm \/ TamperStep

SpecProof == InitProof /\ [][NextProof]_vars

\* ------------------------------------------- proofs of the items of a tree
\* the positions of the leaves: the path to a fringe node, then the leaf side
LeafPaths(t) ==
    {q[1] \o <<q[2]>> :
       q \in {pr \in NodePaths(t) \X {"L", "R"} :
                Side(NodeAt(t, pr[1]), pr[2]).kind = "Leaf"}}

\* the item of the leaf at a leaf position
LeafItemAt(t, leaf_path) ==
    Side(NodeAt(t, SubSeq(leaf_path, 1, Len(leaf_path) - 1)),
         leaf_path[Len(leaf_path)]).item

\* the steps from the leaf at leaf_path up to the node t, one per level, each
\* with the digest of the sibling (the empty digest for an absent sibling).
\* Labelling "sibling": Left(d) says the sibling is on the left; labelling
\* "own": Left(d) says the node on the path is itself the left child.
RECURSIVE path_steps(_, _, _)
path_steps(t, leaf_path, labelling) ==
    LET side == Head(leaf_path)
        sibling == IF side = "L" THEN t.right ELSE t.left
        d == CASE sibling.kind = "Branch" -> sibling.node.mrkl_root
               [] sibling.kind \in {"Leaf", "Partial"} -> sibling.hash
               [] OTHER -> ""
        step == IF (side = "L") <=> (labelling = "own")
                THEN Left(d) ELSE Right(d)
        below == IF Len(leaf_path) > 1
                 THEN path_steps(Side(t, side).node, Tail(leaf_path), labelling)
                 ELSE <<>>
    IN below \o <<step>>

\* generate_proof: the proof of the leaf at leaf_path against the root of t
generate_proof(t, leaf_path, labelling) ==
    MerkleProof(path_steps(t, leaf_path, labelling), t.mrkl_root,
                item_hash(LeafItemAt(t, leaf_path)))

\* let proof = tree.generate_proof(&item), for an item of the tree
GenerateProof ==
    /\ cres = "Ok" /\ tamper = "none" /\ pruneCount = 0
    /\ labels = "none"
    /\ \E leaf_path \in LeafPaths(tree), labelling \in {"sibling", "own"} :
          /\ proof' = generate_proof(tree, leaf_path, labelling)
          /\ pitem' = LeafItemAt(tree, leaf_path)
          /\ labels' = labelling
    /\ UNCHANGED <<vdone, vres, forged, form>>
    /\ UNCHANGED treeVars

NextPath == Construct \/ GenerateProof \/ Verify \/ CheckProofForm

SpecPath == Init /\ [][NextPath]_vars

TypeOK ==
    /\ debug \in BOOLEAN
    /\ cres \in {"none", "Ok", "Err", "Panic"}
    /\ pruneCount \in 0..MaxPrunes
    /\ tamper \in {"none", "leaf", "root", "height"}
    /\ (cres = "Ok") <=> (tree # NoTree)

\* ------------------------------------------------------ history predicates
Built == cres = "Ok"
Fresh == cres = "Ok" /\ pruneCount = 0 /\ tamper = "none"
ItemCount == BagCardinality(itemBag)
ItemSet == BagToSet(itemBag)
Distinct == \A i \in ItemSet : itemBag[i] = 1

\* the digest a branch contributes to its parent
DigestOf(br) ==
    CASE br.kind = "Branch" -> br.node.mrkl_root
      [] br.kind = "Leaf" -> br.hash
      [] br.kind = "Partial" -> br.hash
      [] OTHER -> ""

RECURSIVE HasPartial(_)
HasPartial(t) ==
    \/ t.left.kind = "Partial"
    \/ t.right.kind = "Partial"
    \/ (t.left.kind = "Branch" /\ HasPartial(t.left.node))
    \/ (t.right.kind = "Branch" /\ HasPartial(t.right.node))

RECURSIVE Preserved(_, _)
BranchPreserved(ob, tb) ==
    \/ tb = ob
    \/ /\ tb.kind = "Partial"
       /\ ob.kind \in {"Branch", "Leaf"}
       /\ tb.hash = DigestOf(ob)
    \/ /\ tb.kind = "Branch"
       /\ ob.kind = "Branch"
       /\ Preserved(ob.node, tb.node)

Preserved(o, t) ==
    /\ t.mrkl_root = o.mrkl_root
    /\ t.height = o.height
    /\ BranchPreserved(o.left, t.left)
    /\ BranchPreserved(o.right, t.right)

\* C2: after any sequence of prune calls the root and every node still
\* reachable through Branch children keep the mrkl_root and height construct
\* gave them, and every Partial holds the digest of the branch it replaced.
PruneKeepsDigests ==
    (Built /\ tamper = "none") => Preserved(orig, tree)

PruneKeepsDigestsWitness ==
    /\ Built
    /\ pruneCount = 2
    /\ orig.right.kind = "Branch"
    /\ tree.right.kind = "Partial"
    /\ tree.left.kind = "Branch"
    /\ tree.left.node.left.kind = "Partial"
    /\ Preserved(orig, tree)

\* --------------------------------------------------------------------- C3
\* C3: for a tree of distinct items and a non-empty to_keep that is a subset
\* of its items, validate_pruned() is Valid after prune(to_keep) has returned.
PrunedStaysVerifiable ==
    (/\ Built /\ tamper = "none" /\ pruneCount = 1
     /\ Distinct
     /\ lastKeep # {} /\ lastKeep \subseteq ItemSet)
    => validate_pruned(tree) = Valid

\* --------------------------------------------------------------------- C4
\* C4: strict validate() returns InvalidTree for every tree that holds a
\* Partial branch at any depth and position.
StrictRejectsPartial ==
    (Built /\ HasPartial(tree)) => validate(tree).kind = "InvalidTree"

\* --------------------------------------------------------------------- C5
\* C5: with the stored digest of one leaf of a constructed tree replaced by
\* a different digest and no ancestor updated, validate() is InvalidHash.
LeafTamperDetected ==
    tamper = "leaf" => validate(tree).kind = "InvalidHash"

LeafTamperWitness ==
    /\ tamper = "leaf"
    /\ tree.height = 1
    /\ tree.left = orig.left
    /\ tree.right.node.right.kind = "Leaf"
    /\ tree.right.node.right.hash # orig.right.node.right.hash
    /\ validate(tree).kind = "InvalidHash"

\* --------------------------------------------------------------------- C6
\* every node's mrkl_root is the hash of its children's digests, left then
\* right, and its height is 0 over leaves and child height + 1 over trees
RECURSIVE WellDerived(_)
WellDerived(t) ==
    /\ t.mrkl_root = get_hash(DigestOf(t.left) \o DigestOf(t.right))
    /\ t.left.kind = "Branch" =>
          (t.height = t.left.node.height + 1 /\ WellDerived(t.left.node))
    /\ t.right.kind = "Branch" =>
          (t.height = t.right.node.height + 1 /\ WellDerived(t.right.node))
    /\ (t.left.kind # "Branch" /\ t.right.kind # "Branch") => t.height = 0

\* C6: validate() returns Valid only if every node, at any position, has a
\* correctly derived mrkl_root and height.
ValidatorSound ==
    (Built /\ validate(tree) = Valid) => WellDerived(tree)

\* --------------------------------------------------------------------- C7
\* C7: on a constructed, unpruned tree contains(q) is Ok(true) when q is one
\* of the items and Ok(false) when it is not, for every query q.
MembershipComplete ==
    Fresh => \A q \in Queries :
                contains(tree, q) =
                    (IF q \in ItemSet THEN "Ok(true)" ELSE "Ok(false)")

\* an odd number of items with a duplicate, and absent queries below the
\* minimum, between two items and above the maximum
MembershipWitness ==
    /\ Fresh
    /\ ItemCount = 3
    /\ ~Distinct
    /\ \E lo, mid, hi \in Queries \ ItemSet :
          /\ \A i \in ItemSet : lo < i /\ i < hi
          /\ \E i, j \in ItemSet : i < mid /\ mid < j
          /\ contains(tree, lo) = "Ok(false)"
          /\ contains(tree, mid) = "Ok(false)"
          /\ contains(tree, hi) = "Ok(false)"
    /\ \A i \in ItemSet : contains(tree, i) = "Ok(true)"

\* --------------------------------------------------------------------- C8
\* the items of a branch of the constructed tree
RECURSIVE ItemsOfTree(_)
ItemsOfBranch(br) ==
    CASE br.kind = "Branch" -> ItemsOfTree(br.node)
      [] br.kind = "Leaf" -> {br.item}
      [] OTHER -> {}

ItemsOfTree(t) == ItemsOfBranch(t.left) \cup ItemsOfBranch(t.right)

\* the items of the constructed tree o that lie under a Partial of t
RECURSIVE PrunedItems(_, _)
PrunedUnder(ob, tb) ==
    CASE tb.kind = "Partial" -> ItemsOfBranch(ob)
      [] tb.kind = "Branch" /\ ob.kind = "Branch" ->
            PrunedItems(ob.node, tb.node)
      [] OTHER -> {}

PrunedItems(o, t) == PrunedUnder(o.left, t.left) \cup PrunedUnder(o.right, t.right)

\* C8: in a tree of distinct items, once prune(to_keep) has replaced by a
\* Partial a branch that held item X, X not in to_keep, contains(X) is Err.
PrunedSearchErr ==
    (Built /\ tamper = "none" /\ pruneCount >= 1 /\ Distinct)
    => \A x \in PrunedItems(orig, tree) \ lastKeep : contains(tree, x) = "Err"

PrunedSearchWitness ==
    /\ Built /\ pruneCount = 1 /\ Distinct /\ lastRet
    /\ tree.left.kind = "Branch"
    /\ tree.right.kind = "Partial"
    /\ \E x \in PrunedUnder(orig.left, tree.left) \ lastKeep :
          contains(tree, x) = "Err"
    /\ \E x \in PrunedUnder(orig.right, tree.right) \ lastKeep :
          contains(tree, x) = "Err"

\* --------------------------------------------------------------------- C9
\* ceil(log2(n)) for n >= 1
CeilLog2(n) == CHOOSE k \in 0..n : 2^k >= n /\ (k = 0 \/ 2^(k - 1) < n)

\* C9 as stated: the root height of a tree over n items is ceil(log2(n)).
HeightIsCeilLog2 ==
    Fresh => tree.height = CeilLog2(ItemCount)

\* C9 amended: the nodes that hold the leaves have height 0, so the root
\* height is ceil(log2(ceil(n / 2))), the levels above the fringe row.
HeightIsCeilLog2OfFringe ==
    Fresh => tree.height = CeilLog2((ItemCount + 1) \div 2)

HeightWitness ==
    /\ Fresh
    /\ ItemCount = 3
    /\ tree.height = 1
    /\ CeilLog2(ItemCount) = 2

\* -------------------------------------------------------------------- C10
\* C10 as stated: construct on an empty vector returns the error value in
\* every build mode and builds no tree.
EmptyConstructErr ==
    (cres # "none" /\ ItemCount = 0) => (cres = "Err" /\ tree = NoTree)

\* C10 amended: construct on an empty vector builds no tree; it returns the
\* error value when debug assertions are compiled out and panics on its
\* debug_assert! when they are compiled in.
EmptyConstructErrOrPanic ==
    (cres # "none" /\ ItemCount = 0)
    => (tree = NoTree /\ cres = (IF debug THEN "Panic" ELSE "Err"))

EmptyConstructWitness ==
    cres = "Err" /\ ItemCount = 0 /\ ~debug /\ data = <<>> /\ tree = NoTree

\* -------------------------------------------------------------------- C11
\* C11: prune with an empty to_keep returns false and leaves the tree as it
\* was, whatever the tree: fresh, pruned before, or with a field overwritten.
PruneEmptyRefused ==
    /\ Built => prune(tree, {}) = [ret |-> FALSE, tree |-> tree]
    /\ (Built /\ pruneCount = 1 /\ lastKeep = {}) => (~lastRet /\ tree = orig)

PruneEmptyWitness ==
    /\ Built /\ pruneCount = 1 /\ lastKeep = {}
    /\ ~lastRet
    /\ tree = orig
    /\ tree.height >= 1
    /\ validate(tree) = Valid

\* -------------------------------------------------------------------- C12
\* C12: a prune call with a non-empty to_keep on a tree that already holds a
\* Partial branch returns false and leaves the tree as it was.
PruneOneShot ==
    [][(/\ pruneCount' = pruneCount + 1
        /\ HasPartial(tree)
        /\ lastKeep' # {})
       => (~lastRet' /\ tree' = tree)]_vars

\* -------------------------------------------------------------------- C13
\* C13: prune with a non-empty to_keep none of whose items is in the tree
\* returns false, or leaves a tree for which validate_pruned() is InvalidTree.
PruneOutOfSetFails ==
    (/\ Built /\ tamper = "none" /\ pruneCount = 1
     /\ lastKeep # {} /\ lastKeep \cap ItemSet = {})
    => (~lastRet \/ validate_pruned(tree).kind = "InvalidTree")

\* -------------------------------------------------------------------- C14
\* the running digest by the rule "Left(d) has the sibling d on the left,
\* Right(d) has it on the right", over steps that are all Right or Left
RECURSIVE SiblingSideRunning(_, _)
SiblingSideRunning(steps, running) ==
    IF steps = <<>> THEN running
    ELSE LET step == Head(steps)
         IN SiblingSideRunning(Tail(steps),
               IF step.dir = "Left" THEN get_hash(step.hash \o running)
               ELSE get_hash(running \o step.hash))

\* the running digest by the rule "Left(d) appends d to the running digest,
\* Right(d) puts d in front of it"
RECURSIVE OwnSideRunning(_, _)
OwnSideRunning(steps, running) ==
    IF steps = <<>> THEN running
    ELSE LET step == Head(steps)
         IN OwnSideRunning(Tail(steps),
               IF step.dir = "Left" THEN get_hash(running \o step.hash)
               ELSE get_hash(step.hash \o running))

HasEnd(steps) == \E i \in 1..Len(steps) : steps[i].dir = "End"

\* C14 (as stated): verify starts from H(item), sets running = H(d || running)
\* at a step Left(d) and running = H(running || d) at a step Right(d), and
\* returns true iff the last running digest is the proof's root_hash.
VerifySiblingSideRule ==
    (vdone /\ ~HasEnd(proof.steps))
    => (vres <=> (SiblingSideRunning(proof.steps, item_hash(pitem))
                    = proof.root_hash))

\* C14 (amended): verify starts from H(item), sets running = H(running || d)
\* at a step Left(d) and running = H(d || running) at a step Right(d); it
\* returns false if the proof has an End step, and otherwise true iff the last
\* running digest is the proof's root_hash.
VerifyOwnSideRule ==
    vdone
    => (vres <=> (/\ ~HasEnd(proof.steps)
                  /\ OwnSideRunning(proof.steps, item_hash(pitem))
                       = proof.root_hash))

VerifyRuleWitness ==
    /\ vdone /\ vres /\ ~forged
    /\ Len(proof.steps) = 2
    /\ proof.steps[1].dir = "Left" /\ proof.steps[2].dir = "Right"
    /\ proof.steps[1].hash # item_hash(pitem)
    /\ SiblingSideRunning(proof.steps, item_hash(pitem)) # proof.root_hash

\* -------------------------------------------------------------------- C15
\* C15: check_proof_form(mrkl_root, mrkl_height) is true iff mrkl_root is the
\* proof's root_hash and the proof has mrkl_height - 1 steps; it is false for
\* mrkl_height 0 and false whenever the root differs.
ProofFormRule ==
    form.called
    => /\ form.ret <=> (/\ form.mrkl_root = proof.root_hash
                        /\ Len(proof.steps) = form.mrkl_height - 1)
       /\ form.mrkl_height = 0 => ~form.ret
       /\ form.mrkl_root # proof.root_hash => ~form.ret

ProofFormWitness ==
    /\ form.called /\ form.ret
    /\ Len(proof.steps) = 2
    /\ form.mrkl_height = 3

\* -------------------------------------------------------------------- C16
\* C16: once verify has accepted a proof for an item, replacing the digest of
\* one Right or Left step by a different digest makes verify return false for
\* that item; a proof with an End step is never accepted.
ForgedStepRejected ==
    /\ (vdone /\ forged) => ~vres
    /\ (vdone /\ HasEnd(proof.steps)) => ~vres

ForgedStepWitness ==
    /\ vdone /\ forged /\ ~vres
    /\ Len(proof.steps) = 2
    /\ proof.steps[1].hash = WrongRoot
    /\ OwnSideRunning(proof.steps, item_hash(pitem)) # proof.root_hash

\* -------------------------------------------------------------------- C17
\* C17: construct gives no tree for a vector of fewer than two items, empty
\* or of exactly one item: it returns an error result (a build with
\* debug assertions stops at the assertion instead).
ConstructNeedsTwoItems ==
    (cres # "none" /\ ItemCount < 2) => cres \in {"Err", "Panic"}

\* -------------------------------------------------------------------- C18
\* the result a two-Branch node owes to the results l and r of its children
\* when one of them is not Valid
Propagated(l, r, res) ==
    (l.kind # "Valid" \/ r.kind # "Valid")
    => /\ res.kind # "Valid"
       /\ (l.kind = "InvalidHash" \/ r.kind = "InvalidHash")
            => res.kind = "InvalidHash"
       /\ (l.kind # "InvalidHash" /\ r.kind # "InvalidHash")
            => res = (IF l.kind # "Valid" THEN l ELSE r)

TwoBranchNodes(t) ==
    {n \in {NodeAt(t, path) : path \in NodePaths(t)} :
        n.left.kind = "Branch" /\ n.right.kind = "Branch"}

\* C18: at a node with two Branch children, if the result of either child is
\* not Valid then the result of the node is not Valid: InvalidHash if either
\* child returned InvalidHash, otherwise the InvalidTree of the failing child;
\* in the bound-tracking validator and in the digest-only one.
InvalidPropagates ==
    Built =>
      \A n \in TwoBranchNodes(tree) :
         /\ Propagated(validate(n.left.node), validate(n.right.node),
                       validate(n))
         /\ Propagated(validate_pruned(n.left.node),
                       validate_pruned(n.right.node), validate_pruned(n))
         /\ ~HasPartial(tree)
              => Propagated(merkle_validate(n.left.node),
                            merkle_validate(n.right.node), merkle_validate(n))

\* -------------------------------------------------------------------- C19
AllNodes(t) == {NodeAt(t, path) : path \in NodePaths(t)}
IsInternal(n) == n.left.kind = "Branch" /\ n.right.kind \in {"Branch", "Empty"}
IsFringe(n) == n.left.kind = "Leaf" /\ n.right.kind \in {"Leaf", "Empty"}
RightNode(n) == IF n.right.kind = "Branch" THEN Some(n.right.node) ELSE None
RightItem(n) == IF n.right.kind = "Leaf" THEN Some(n.right.item) ELSE None
RightHash(n) == IF n.right.kind = "Leaf" THEN Some(n.right.hash) ELSE None

\* mrkl_root differs from the digest of the children's digests
RootMismatch(n) ==
    n.mrkl_root # get_hash(DigestOf(n.left) \o
                           (IF n.right.kind = "Empty" THEN ""
                            ELSE DigestOf(n.right)))
\* a leaf's stored digest differs from the digest of its item
LeafMismatch(n) ==
    \/ n.left.hash # item_hash(n.left.item)
    \/ n.right.kind = "Leaf" /\ n.right.hash # item_hash(n.right.item)
WrongHeight(n) ==
    IF IsFringe(n) THEN n.height # 0
    ELSE \/ n.height # n.left.node.height + 1
         \/ n.right.kind = "Branch" /\ n.height # n.right.node.height + 1

\* C19: a node with a digest mismatch and a wrong height is answered with
\* InvalidHash, internal or fringe, and an internal node with correct heights
\* and a digest mismatch is answered with InvalidHash; in both validators.
HashPrecedence ==
    Built =>
      \A n \in AllNodes(tree) :
         /\ (IsInternal(n) /\ RootMismatch(n))
            => /\ validate_internal_node(n, n.left.node, RightNode(n)).kind
                    = "InvalidHash"
               /\ merkle_validate_internal_node(n, n.left.node,
                                                RightNode(n)).kind
                    = "InvalidHash"
         /\ (IsFringe(n) /\ WrongHeight(n) /\ (RootMismatch(n) \/ LeafMismatch(n)))
            => validate_fringe_node(n, n.left.item, n.left.hash,
                                    RightItem(n), RightHash(n)).kind
                    = "InvalidHash"
         /\ (IsFringe(n) /\ WrongHeight(n) /\ RootMismatch(n))
            => merkle_validate_fringe_node(n, n.left.hash, RightHash(n)).kind
                    = "InvalidHash"

\* -------------------------------------------------------------------- C20
OnePartial(n) ==
    \/ n.left.kind = "Partial" /\ n.right.kind \in {"Leaf", "Branch"}
    \/ n.right.kind = "Partial" /\ n.left.kind \in {"Leaf", "Branch"}

\* the other child of a node with one Partial child passes pruned validation
OtherChildValid(br) ==
    IF br.kind = "Branch" THEN validate_pruned(br.node) = Valid
    ELSE br.hash = item_hash(br.item)

\* C20: under validate_pruned, a node with one Partial child of digest p and a
\* Leaf or Branch child of digest d (itself passing pruned validation) is Valid
\* iff mrkl_root is H(p || d) with the Partial on the left and H(d || p) with
\* the Partial on the right.
PrunedNodeOrder ==
    Built =>
      \A n \in AllNodes(tree) :
         OnePartial(n) =>
           LET other == IF n.left.kind = "Partial" THEN n.right ELSE n.left
           IN (validate_pruned(n) = Valid)
                <=> /\ OtherChildValid(other)
                    /\ n.mrkl_root = get_hash(DigestOf(n.left) \o
                                              DigestOf(n.right))

\* -------------------------------------------------------------------- C21
\* C21: on a tree of distinct items, after prune returns true for a non-empty
\* to_keep taken from its items, no Leaf left in the tree holds an item
\* outside to_keep.
PruneKeepsOnlyKept ==
    (/\ Built /\ tamper = "none" /\ pruneCount = 1
     /\ Distinct
     /\ lastKeep # {} /\ lastKeep \subseteq ItemSet
     /\ lastRet)
    => ItemsOfTree(tree) \subseteq lastKeep

RECURSIVE LeafSeq(_)
LeafSeqOf(br) ==
    CASE br.kind = "Branch" -> LeafSeq(br.node)
      [] br.kind = "Leaf" -> <<br.item>>
      [] OTHER -> <<>>

LeafSeq(t) == LeafSeqOf(t.left) \o LeafSeqOf(t.right)

NonDecreasing(s) == \A i \in 1..(Len(s) - 1) : s[i] <= s[i + 1]

\* the items of a bag listed in ascending order, from item i on
RECURSIVE AscendingFrom(_, _)
AscendingFrom(bag, i) ==
    IF i > MaxItem THEN <<>>
    ELSE [k \in 1..(IF i \in DOMAIN bag THEN bag[i] ELSE 0) |-> i]
           \o AscendingFrom(bag, i + 1)

\* C23: whatever the order of the input and with duplicates, the leaves of the
\* tree construct returns hold, left to right, the multiset of the input in
\* non-decreasing order, and the root digest depends on the multiset alone.
SortedLayout ==
    [][(cres = "none" /\ cres' = "Ok")
       => LET leaves == LeafSeq(tree')
          IN /\ NonDecreasing(leaves)
             /\ BagOfSeq(leaves) = BagOfSeq(data)
             /\ tree'.mrkl_root =
                  construct(AscendingFrom(BagOfSeq(data), 1)).tree.mrkl_root]_vars

SortedLayoutWitness ==
    /\ Fresh
    /\ ItemCount = 4
    /\ Cardinality(ItemSet) = 3
    /\ NonDecreasing(LeafSeq(tree))
    /\ BagOfSeq(LeafSeq(tree)) = itemBag

\* -------------------------------------------------------------------- C24
MaxOf(S) == CHOOSE m \in S : \A x \in S : x <= m

\* l_bound and r_bound of the node n are the largest items under its children
BoundsExact(n) ==
    /\ n.l_bound = MaxOf(ItemsOfBranch(n.left))
    /\ n.r_bound = IF n.right.kind = "Empty" THEN n.l_bound
                   ELSE MaxOf(ItemsOfBranch(n.right))

\* C24: in every node of the tree construct returns, l_bound is the largest
\* item under the left child and r_bound the largest item under the right
\* child, or l_bound when the right child is Empty; prune changes no bound of
\* the nodes it leaves in the tree.
BoundInvariant ==
    /\ Fresh => \A n \in AllNodes(tree) : BoundsExact(n)
    /\ (Built /\ tamper = "none")
       => \A path \in NodePaths(tree) :
             /\ path \in NodePaths(orig)
             /\ NodeAt(tree, path).l_bound = NodeAt(orig, path).l_bound
             /\ NodeAt(tree, path).r_bound = NodeAt(orig, path).r_bound

BoundInvariantWitness ==
    /\ Built /\ tamper = "none" /\ pruneCount = 1 /\ lastRet
    /\ ItemCount = 3 /\ Distinct
    /\ tree.left.kind = "Partial"
    /\ tree.right.kind = "Branch"
    /\ tree.right.node.right.kind = "Empty"
    /\ tree.right.node.r_bound = tree.right.node.l_bound
    /\ tree.l_bound < tree.r_bound
    /\ \A n \in AllNodes(orig) : BoundsExact(n)

\* -------------------------------------------------------------------- C25
\* C25: after prune returns true on a constructed tree for a non-empty to_keep
\* taken from its items, contains(x) is Ok(true) for every x of to_keep.
KeptStaySearchable ==
    (/\ Built /\ tamper = "none" /\ pruneCount = 1
     /\ lastKeep # {} /\ lastKeep \subseteq ItemSet
     /\ lastRet)
    => \A x \in lastKeep : contains(tree, x) = "Ok(true)"

KeptSearchableWitness ==
    /\ Built /\ tamper = "none" /\ pruneCount = 1 /\ lastRet
    /\ Cardinality(lastKeep) = 2 /\ lastKeep \subseteq ItemSet
    /\ ItemCount = 4 /\ Distinct
    /\ tree.left.kind = "Branch" /\ tree.right.kind = "Branch"
    /\ HasPartial(tree)
    /\ \A x \in lastKeep : contains(tree, x) = "Ok(true)"

====
